---- MODULE Spec2Model ----
(***************************************************************************)
(* Batch orchestration and progress reporting of the product               *)
(* recommendation server (server.js, in-memory variant, lines 1-379).      *)
(*                                                                         *)
(* One upload request is an async function.  Each action below is the code *)
(* that runs between two of its await points; the actions of one request   *)
(* are sequenced by the field pc of its record in batch.                   *)
(*                                                                         *)
(* Spec runs one upload over all inputs of the bounds with no observer;    *)
(* SpecObserved runs one two-row upload watched by two socket.io           *)
(* connections (FairObserved adds the fairness of the event loop);         *)
(* SpecShared runs two uploads at once, watched by one connection.         *)
(* SpecDisk runs the disk-based variant of the server (lines 380-713),     *)
(* SpecLarge the last units of batches of about 200 units, SpecClient the  *)
(* model selection of the browser application.                             *)
(***************************************************************************)
EXTENDS Integers, Sequences, FiniteSets, TLC

VARIABLES
    env,        \* process.env: which provider credentials are set
    batch,      \* per upload request: the locals of the request handler
    emitted,    \* every io.emit('progress', ...) so far, in publish order
    statusResp, \* body of the last GET /api/status response
    sockets,    \* the socket.io connections to `io` and what each was sent
    client      \* the browser application: the state of App.jsx

vars == <<env, batch, emitted, statusResp, sockets, client>>

-----------------------------------------------------------------------------
(* Bounds of the model *)

MaxRows == 3          \* data rows of an uploaded CSV
MaxModels == 2        \* length of the selectedModels array
MaxIterations == 2    \* largest value of the iterations field
MaxUnits == 4         \* largest rows * models * iterations of a request
MaxTotal == 201       \* largest total of the long batches of SpecLarge

-----------------------------------------------------------------------------
(* Static configuration *)

Providers == {"openai", "anthropic", "deepseek"}

AI_MODELS ==
    [k \in {"gpt-4.1", "gpt-4o", "gpt-o3", "claude-3.7", "claude-sonnet-4",
            "claude-opus-4", "deepseek-chat", "deepseek-coder"} |->
        CASE k = "gpt-4.1"         -> [provider |-> "openai",    model |-> "gpt-4-turbo"]
          [] k = "gpt-4o"          -> [provider |-> "openai",    model |-> "gpt-4o"]
          [] k = "gpt-o3"          -> [provider |-> "openai",    model |-> "o3-mini"]
          [] k = "claude-3.7"      -> [provider |-> "anthropic", model |-> "claude-3-5-haiku-20241022"]
          [] k = "claude-sonnet-4" -> [provider |-> "anthropic", model |-> "claude-3-5-sonnet-20241022"]
          [] k = "claude-opus-4"   -> [provider |-> "anthropic", model |-> "claude-3-opus-20240229"]
          [] k = "deepseek-chat"   -> [provider |-> "deepseek",  model |-> "deepseek-chat"]
          [] k = "deepseek-coder"  -> [provider |-> "deepseek",  model |-> "deepseek-coder"]]

\* Property names every JavaScript object literal inherits: AI_MODELS[k] is
\* defined for them (a function), but has no provider field.
InheritedKeys == {"constructor"}

\* callAIModel(modelKey, prompt, retries = 3)
DefaultRetries == 3

DEMO_TAG == " [DEMO MODE - Real API keys required for actual AI responses]"

\* Math.floor(Math.random() * responses.length): every table entry has two texts
DemoChoices == {0, 1}

-----------------------------------------------------------------------------
(* Inputs of the model *)

\* request slots; Spec runs the requests of SingleBatch
Batches == 1..2

SingleBatch == {1}

\* Object.values(row) of the rows csv-parser can deliver
Catalog == { <<"Sofa">>, <<"Table", "Furniture">> }

\* elements of the selectedModels array a client can send
ModelKeys == {"gpt-4o", "claude-3.7", "not-a-model", "constructor"}

\* the iterations form field: missing, or the text of the field
IterationInputs ==
    {[kind |-> "missing"], [kind |-> "text"]} \cup
    {[kind |-> "int", val |-> n] : n \in (-1)..MaxIterations}

\* the selectedModels form field
ModelInputs ==
    {[kind |-> "missing"], [kind |-> "badjson"], [kind |-> "object"]} \cup
    {[kind |-> "array", val |-> s] : s \in UNION {[1..n -> ModelKeys] : n \in 0..MaxModels}}

\* the selectedModels field sent along with a file above the size limit
OversizeModelInputs ==
    {[kind |-> "missing"], [kind |-> "array", val |-> <<"gpt-4o">>]}

\* socket.io connections that may be opened during a run
Sockets == {"s1", "s2"}

\* the socketId form field: the client of request b sends the id of its own
\* socket.io connection
SocketIdOf(b) == IF b = 1 THEN "s1" ELSE "s2"

\* the parsed uploads: header-only, one to MaxRows alternating products, and
\* one file that lists the same product twice
CsvFile(n) == [j \in 1..n |-> IF j % 2 = 1 THEN <<"Sofa">> ELSE <<"Table", "Furniture">>]

CsvInputs == {CsvFile(n) : n \in 0..MaxRows} \cup {<< <<"Sofa">>, <<"Sofa">> >>}

\* what a provider attempt can throw (network failure, malformed response)
ProviderErrors == {"Network Error", "Cannot read properties of undefined (reading '0')"}

\* what a provider attempt can return
LiveTexts == {"1) Armchair 2) Ottoman 3) Rug"}

-----------------------------------------------------------------------------
(* Pure helpers *)

EndsWith(s, t) == Len(s) >= Len(t) /\ SubSeq(s, Len(s) - Len(t) + 1, Len(s)) = t

StartsWith(s, t) == Len(s) >= Len(t) /\ SubSeq(s, 1, Len(t)) = t

\* Array.prototype.join(', ') on the values of one row
RECURSIVE JoinValues(_)
JoinValues(values) ==
    IF Len(values) = 0 THEN ""
    ELSE IF Len(values) = 1 THEN values[1]
    ELSE values[1] \o ", " \o JoinValues(Tail(values))

ProductInfo(row) == JoinValues(row)

PromptPrefix == "Based on this product: \""

PromptSuffix ==
    "\", provide 3-5 specific product recommendations with brief explanations. "
    \o "Focus on similar or complementary products that customers who buy this item "
    \o "might also be interested in. Include product names and short reasons for each "
    \o "recommendation."

Prompt(productInfo) == PromptPrefix \o productInfo \o PromptSuffix

\* generateDemoResponse: the text captured by /Based on this product: "([^"]+)"/,
\* i.e. the longest run of characters other than '"' that follows the prefix
\* (the prompt supplies the closing quote); no match when that run is empty.
QuoteFreePrefix(s) ==
    LET IsQuote(j) == SubSeq(s, j, j) = "\""
        n == CHOOSE k \in 0..Len(s) :
                 /\ k = Len(s) \/ IsQuote(k + 1)
                 /\ \A j \in 1..k : ~IsQuote(j)
    IN  SubSeq(s, 1, n)

ProductMatch(prompt) ==
    IF StartsWith(prompt, PromptPrefix)
    THEN QuoteFreePrefix(SubSeq(prompt, Len(PromptPrefix) + 1, Len(prompt)))
    ELSE ""

\* demoResponses[modelKey] || demoResponses['gpt-4o'], then one of its texts.
\* The canned sentences are abbreviated to their table position and the
\* interpolated product.  An inherited key selects a function object, whose
\* element [0] is undefined.
DemoText(modelKey, choice, product) ==
    IF modelKey \in DOMAIN AI_MODELS
    THEN "demoResponses[" \o modelKey \o "][" \o ToString(choice) \o "] for " \o product
    ELSE IF modelKey \in InheritedKeys THEN "undefined"
    ELSE "demoResponses[gpt-4o][" \o ToString(choice) \o "] for " \o product

\* Variant of generateDemoResponse: the canned text is returned untagged
generateDemoResponse_NoTag(prompt, modelKey, choice) ==
    LET m == ProductMatch(prompt)
        product == IF m # "" THEN m ELSE "Unknown Product"
    IN  DemoText(modelKey, choice, product)

generateDemoResponse(prompt, modelKey, choice) ==
    LET m == ProductMatch(prompt)
        product == IF m # "" THEN m ELSE "Unknown Product"
    IN  DemoText(modelKey, choice, product) \o DEMO_TAG

\* The pairs (completed, total), total below 260, for which the exact
\* quotient 100 * completed / total ends in .5 while the IEEE double
\* (completed / total) * 100 falls just below it
HalfLostInDouble ==
    {<<23, 40>>, <<46, 80>>, <<69, 120>>, <<92, 160>>, <<29, 200>>, <<57, 200>>,
     <<113, 200>>, <<115, 200>>, <<138, 240>>}

\* Variant of Percentage: Math.floor in place of Math.round
Percentage_Floor(completed, total) == (100 * completed) \div total

\* Math.round((completedTasks / totalTasks) * 100), for 0 <= completed and
\* 0 < total < 260: Math.round rounds halves up, and the double product is
\* on the same side of the half as the exact quotient except for the pairs of
\* HalfLostInDouble
Percentage(completed, total) ==
    IF <<completed, total>> \in HalfLostInDouble
    THEN (100 * completed) \div total
    ELSE (200 * completed + total) \div (2 * total)

\* parseInt(iterations) || 1
ParseIterations(it) ==
    IF it.kind = "int" /\ it.val # 0 THEN it.val ELSE 1

-----------------------------------------------------------------------------
(* The state of one upload request *)

NoResponse == [status |-> 0]

IdleBatch ==
    [pc             |-> "idle",
     models         |-> <<>>,       \* JSON.parse(selectedModels)
     iterationCount |-> 0,
     csvData        |-> <<>>,
     totalTasks     |-> 0,
     completedTasks |-> 0,
     results        |-> <<>>,
     row            |-> 1,          \* position of `for (const row of csvData)`
     mi             |-> 1,          \* position of `for (const modelKey of models)`
     i              |-> 0,          \* `let i`
     retries        |-> 0,          \* argument of the running callAIModel
     settled        |-> [kind |-> "none"],  \* outcome of the awaited callAIModel
     pending        |-> {},         \* outstanding provider requests and timers
     attempts       |-> 0,          \* provider requests made for the current unit
     thrown         |-> <<>>,       \* the first and the latest error those requests threw
     response       |-> NoResponse, \* what res.json sent
     respondedAt    |-> 0,          \* events published when res.json ran
     tempFile       |-> "none",     \* disk-based variant: the file at req.file.path
     req            |-> [file |-> "none",  \* the request as it arrived
                         selectedModels |-> [kind |-> "missing"],
                         socketId |-> ""]]

\* a socket.io connection: `new` until its 'connection' event, `closed`
\* after its 'disconnect'; joinedAt is the number of events published
\* before it connected
NewSocket == [state |-> "new", joinedAt |-> 0, received |-> <<>>]

\* the state of the browser application after its first render
IdleClient ==
    [apiStatus      |-> [loaded |-> FALSE],  \* null until /api/status answered
     selectedFile   |-> FALSE,
     selectedModels |-> <<>>,
     isProcessing   |-> FALSE,
     submitted      |-> <<>>]       \* selectedModels of the POST in flight

Init ==
    /\ env \in [Providers -> BOOLEAN]
    /\ batch = [b \in Batches |-> IdleBatch]
    /\ emitted = <<>>
    /\ statusResp = [apiKeys |-> <<>>]
    /\ sockets = [s \in Sockets |-> NewSocket]
    /\ client = IdleClient

\* io.emit('progress', data) of request b, as recorded in publish order
Emit(b, data) == Append(emitted, [by |-> b, data |-> data])

\* Variant of Broadcast: io.to(socketId).emit, the event goes only to the
\* socket named by the request
Broadcast_ToRequester(b, data) ==
    [s \in Sockets |->
        IF sockets[s].state = "open" /\ s = batch[b].req.socketId
        THEN [sockets[s] EXCEPT !.received = Append(@, [by |-> b, data |-> data])]
        ELSE sockets[s]]

\* io.emit sends the event to every socket connected at that moment, whoever
\* started the request, and returns without waiting for anyone
Broadcast(b, data) ==
    [s \in Sockets |->
        IF sockets[s].state = "open"
        THEN [sockets[s] EXCEPT !.received = Append(@, [by |-> b, data |-> data])]
        ELSE sockets[s]]

Publish(b, data) ==
    /\ emitted' = Emit(b, data)
    /\ sockets' = Broadcast(b, data)

\* Variant of Connect: the server replays the events published so far to a
\* socket that connects
Connect_Replay(s) ==
    /\ sockets[s].state = "new"
    /\ sockets' = [sockets EXCEPT ![s].state = "open",
                                  ![s].joinedAt = Len(emitted),
                                  ![s].received = emitted]
    /\ UNCHANGED <<env, batch, emitted, statusResp, client>>

\* io.on('connection'): the handler only logs; nothing is replayed
Connect(s) ==
    /\ sockets[s].state = "new"
    /\ sockets' = [sockets EXCEPT ![s].state = "open",
                                  ![s].joinedAt = Len(emitted)]
    /\ UNCHANGED <<env, batch, emitted, statusResp, client>>

\* socket.on('disconnect'): the handler only logs
Disconnect(s) ==
    /\ sockets[s].state = "open"
    /\ sockets' = [sockets EXCEPT ![s].state = "closed"]
    /\ UNCHANGED <<env, batch, emitted, statusResp, client>>

-----------------------------------------------------------------------------
(* POST /api/upload: validation, up to `await parseCSV` *)

\* Variant of ValidationError: without the `models.length === 0` test
ValidationError_AcceptsEmpty(hasFile, selectedModels) ==
    IF ~hasFile THEN "No file uploaded"
    ELSE IF selectedModels.kind = "missing" THEN "No models selected"
    ELSE IF selectedModels.kind = "badjson" THEN "Invalid models format"
    ELSE IF selectedModels.kind # "array"
         THEN "At least one model must be selected"
    ELSE ""

ValidationError(hasFile, selectedModels) ==
    IF ~hasFile THEN "No file uploaded"
    ELSE IF selectedModels.kind = "missing" THEN "No models selected"
    ELSE IF selectedModels.kind = "badjson" THEN "Invalid models format"
    ELSE IF selectedModels.kind # "array" \/ Len(selectedModels.val) = 0
         THEN "At least one model must be selected"
    ELSE ""

Upload(b, hasFile, selectedModels, iterations, socketId) ==
    /\ batch[b].pc = "idle"
    /\ LET err == ValidationError(hasFile, selectedModels)
           req == [file |-> IF hasFile THEN "ok" ELSE "none",
                   selectedModels |-> selectedModels,
                   socketId |-> socketId]
       IN
       IF err # ""
       THEN batch' = [batch EXCEPT ![b].pc = "done",
                                   ![b].req = req,
                                   ![b].response = [status |-> 400, error |-> err],
                                   ![b].respondedAt = Len(emitted)]
       ELSE batch' = [batch EXCEPT ![b].pc = "parsing",
                                   ![b].req = req,
                                   ![b].models = selectedModels.val,
                                   ![b].iterationCount = ParseIterations(iterations)]
    /\ UNCHANGED <<env, emitted, statusResp, sockets, client>>

\* upload.single('csvFile') with limits.fileSize: a file above 5 MB makes the
\* middleware call next(err); the route handler and its try/catch never run,
\* and as the application registers no error middleware, the framework's
\* default handler writes its own error page
FileTooLarge(b, selectedModels) ==
    /\ batch[b].pc = "idle"
    /\ batch' = [batch EXCEPT ![b].pc = "done",
                              ![b].req = [file |-> "tooLarge",
                                          selectedModels |-> selectedModels,
                                          socketId |-> ""],
                              ![b].response = [status |-> 500,
                                               html |-> "MulterError: File too large"],
                              ![b].respondedAt = Len(emitted)]
    /\ UNCHANGED <<env, emitted, statusResp, sockets, client>>

\* parseCSV resolves with csvData: counters are set up and the initial
\* progress event is emitted
ParseResolve(b, data) ==
    /\ batch[b].pc = "parsing"
    /\ Len(data) * Len(batch[b].models) * batch[b].iterationCount <= MaxUnits
    /\ LET total == Len(data) * Len(batch[b].models) * batch[b].iterationCount IN
       /\ batch' = [batch EXCEPT ![b].pc = "loop",
                                 ![b].csvData = data,
                                 ![b].results = <<>>,
                                 ![b].totalTasks = total,
                                 ![b].completedTasks = 0]
       /\ Publish(b, [completed |-> 0, total |-> total, percentage |-> 0,
                      currentProduct |-> "", currentModel |-> "",
                      status |-> "Starting processing..."])
    /\ UNCHANGED <<env, statusResp, client>>

\* Variant of ParseReject: the initial progress event is emitted before
\* `await parseCSV` instead of after it
ParseReject_AfterInitialEvent(b) ==
    /\ batch[b].pc = "parsing"
    /\ Publish(b, [completed |-> 0, total |-> 0, percentage |-> 0,
                   currentProduct |-> "", currentModel |-> "",
                   status |-> "Starting processing..."])
    /\ batch' = [batch EXCEPT ![b].pc = "done",
                              ![b].response = [status |-> 500, success |-> FALSE,
                                               error |-> "Invalid CSV"],
                              ![b].respondedAt = Len(emitted')]
    /\ UNCHANGED <<env, statusResp, client>>

\* parseCSV rejects: the outer catch answers 500
ParseReject(b) ==
    /\ batch[b].pc = "parsing"
    /\ batch' = [batch EXCEPT ![b].pc = "done",
                              ![b].response = [status |-> 500, success |-> FALSE,
                                               error |-> "Invalid CSV"],
                              ![b].respondedAt = Len(emitted)]
    /\ UNCHANGED <<env, emitted, statusResp, sockets, client>>

-----------------------------------------------------------------------------
(* callAIModel *)

\* config.provider, for a config that exists
ConfigProvider(modelKey) ==
    IF modelKey \in DOMAIN AI_MODELS THEN AI_MODELS[modelKey].provider ELSE "undefined"

\* Variant of hasApiKeys: any configured provider switches demo mode off
hasApiKeys_AnyProvider(modelKey) ==
    env["openai"] \/ env["anthropic"] \/ env["deepseek"]

hasApiKeys(modelKey) ==
    LET provider == ConfigProvider(modelKey) IN
    \/ provider = "openai" /\ env["openai"]
    \/ provider = "anthropic" /\ env["anthropic"]
    \/ provider = "deepseek" /\ env["deepseek"]

\* The path callAIModel takes up to its first await
CallMode(modelKey) ==
    IF modelKey \notin DOMAIN AI_MODELS /\ modelKey \notin InheritedKeys
    THEN "typeerror"                   \* config is undefined
    ELSE IF ~hasApiKeys(modelKey) THEN "demo"
    ELSE "live"

\* the batch record after callAIModel(modelKey, prompt, retries) ran up to its
\* first await (or threw); unit is the 1-based number of the awaiting unit
CallAIModelEnter(rec, modelKey, retries) ==
    LET unit == rec.completedTasks + 1
        mode == CallMode(modelKey)
    IN  IF mode = "typeerror"
        THEN [rec EXCEPT !.pc = "settled",
                         !.retries = retries,
                         !.settled = [kind |-> "throw",
                                      val |-> "Cannot read properties of undefined (reading 'provider')"]]
        ELSE IF mode = "demo"
        THEN [rec EXCEPT !.pc = "demoDelay",
                         !.retries = retries,
                         !.pending = @ \cup {[op |-> "demoDelay", unit |-> unit, attempt |-> 0]}]
        ELSE [rec EXCEPT !.pc = "provider",
                         !.retries = retries,
                         !.attempts = @ + 1,
                         !.pending = @ \cup {[op |-> "provider", unit |-> unit,
                                              attempt |-> rec.attempts + 1]}]

\* the demo delay elapsed
DemoTimer(b, choice) ==
    /\ batch[b].pc = "demoDelay"
    /\ LET rec == batch[b]
           prompt == Prompt(ProductInfo(rec.csvData[rec.row]))
       IN  batch' = [batch EXCEPT ![b] =
               [rec EXCEPT !.pc = "settled",
                           !.pending = {},
                           !.settled = [kind |-> "return",
                                        val |-> generateDemoResponse(prompt, rec.models[rec.mi], choice)]]]
    /\ UNCHANGED <<env, emitted, statusResp, sockets, client>>

\* the provider answered with a completion
ProviderReturn(b, text) ==
    /\ batch[b].pc = "provider"
    /\ batch' = [batch EXCEPT ![b].pc = "settled",
                              ![b].pending = {},
                              ![b].settled = [kind |-> "return", val |-> text]]
    /\ UNCHANGED <<env, emitted, statusResp, sockets, client>>

\* the errors of a unit's attempts, kept as <<first>> or <<first, latest>>
NoteThrown(thrown, error) ==
    IF Len(thrown) = 0 THEN <<error>> ELSE <<thrown[1], error>>

\* Variant of ProviderThrow: the retry is issued at once, without awaiting
\* the delay that was just scheduled
ProviderThrow_NoAwait(b, error) ==
    /\ batch[b].pc = "provider"
    /\ IF batch[b].retries > 0
       THEN LET rec == [batch[b] EXCEPT !.thrown = NoteThrown(@, error),
                                        !.pending = {[op |-> "retryDelay",
                                                      unit |-> batch[b].completedTasks + 1,
                                                      attempt |-> batch[b].attempts]}]
            IN  batch' = [batch EXCEPT ![b] =
                    CallAIModelEnter(rec, rec.models[rec.mi], rec.retries - 1)]
       ELSE batch' = [batch EXCEPT ![b].pc = "settled",
                                   ![b].pending = {},
                                   ![b].thrown = NoteThrown(@, error),
                                   ![b].settled = [kind |-> "throw", val |-> error]]
    /\ UNCHANGED <<env, emitted, statusResp, sockets, client>>

\* Variant of ProviderThrow: when the retries are used up, the error of the
\* unit's first attempt is thrown instead of the one just caught
ProviderThrow_FirstError(b, error) ==
    /\ batch[b].pc = "provider"
    /\ IF batch[b].retries > 0
       THEN batch' = [batch EXCEPT ![b].pc = "retryDelay",
                                   ![b].thrown = NoteThrown(@, error),
                                   ![b].pending = {[op |-> "retryDelay",
                                                    unit |-> batch[b].completedTasks + 1,
                                                    attempt |-> batch[b].attempts]}]
       ELSE batch' = [batch EXCEPT ![b].pc = "settled",
                                   ![b].pending = {},
                                   ![b].thrown = NoteThrown(@, error),
                                   ![b].settled = [kind |-> "throw",
                                                   val |-> NoteThrown(batch[b].thrown, error)[1]]]
    /\ UNCHANGED <<env, emitted, statusResp, sockets, client>>

\* the provider request failed, or its answer had no choices: the catch block
ProviderThrow(b, error) ==
    /\ batch[b].pc = "provider"
    /\ IF batch[b].retries > 0
       THEN batch' = [batch EXCEPT ![b].pc = "retryDelay",
                                   ![b].thrown = NoteThrown(@, error),
                                   ![b].pending = {[op |-> "retryDelay",
                                                    unit |-> batch[b].completedTasks + 1,
                                                    attempt |-> batch[b].attempts]}]
       ELSE batch' = [batch EXCEPT ![b].pc = "settled",
                                   ![b].pending = {},
                                   ![b].thrown = NoteThrown(@, error),
                                   ![b].settled = [kind |-> "throw", val |-> error]]
    /\ UNCHANGED <<env, emitted, statusResp, sockets, client>>

\* the 1000 ms retry delay elapsed: return callAIModel(modelKey, prompt, retries - 1)
RetryTimer(b) ==
    /\ batch[b].pc = "retryDelay"
    /\ LET rec == [batch[b] EXCEPT !.pending = {}] IN
       batch' = [batch EXCEPT ![b] =
                   CallAIModelEnter(rec, rec.models[rec.mi], rec.retries - 1)]
    /\ UNCHANGED <<env, emitted, statusResp, sockets, client>>

-----------------------------------------------------------------------------
(* The orchestration loop of POST /api/upload *)

\* the three nested for loops still have a body to run
HasUnit(rec) == rec.row <= Len(rec.csvData) /\ rec.iterationCount >= 1

StartingStatus(productInfo, modelKey, iteration, iterationCount) ==
    "Processing " \o productInfo \o " with " \o modelKey \o " (iteration "
        \o ToString(iteration) \o "/" \o ToString(iterationCount) \o ")"

\* Variant of StartUnit: the progress update is emitted with an
\* acknowledgement, so a unit starts only while some observer is connected
StartUnit_AwaitsObserver(b) ==
    /\ \E s \in Sockets : sockets[s].state = "open"
    /\ batch[b].pc = "loop"
    /\ HasUnit(batch[b])
    /\ LET rec == batch[b]
           productInfo == ProductInfo(rec.csvData[rec.row])
           modelKey == rec.models[rec.mi]
       IN  /\ Publish(b, [completed |-> rec.completedTasks,
                          total |-> rec.totalTasks,
                          percentage |-> Percentage(rec.completedTasks, rec.totalTasks),
                          currentProduct |-> productInfo,
                          currentModel |-> modelKey,
                          iteration |-> rec.i + 1,
                          status |-> StartingStatus(productInfo, modelKey,
                                                    rec.i + 1, rec.iterationCount)])
           /\ batch' = [batch EXCEPT ![b] =
                   CallAIModelEnter([rec EXCEPT !.attempts = 0], modelKey, DefaultRetries)]
    /\ UNCHANGED <<env, statusResp, client>>

\* Variant of StartUnit: completedTasks is one module-level counter that all
\* requests increment, instead of a local of each request
StartUnit_SharedCounter(b) ==
    /\ batch[b].pc = "loop"
    /\ HasUnit(batch[b])
    /\ LET rec == batch[b]
           productInfo == ProductInfo(rec.csvData[rec.row])
           modelKey == rec.models[rec.mi]
           shared == batch[1].completedTasks + batch[2].completedTasks
       IN  /\ Publish(b, [completed |-> shared,
                          total |-> rec.totalTasks,
                          percentage |-> Percentage(shared, rec.totalTasks),
                          currentProduct |-> productInfo,
                          currentModel |-> modelKey,
                          iteration |-> rec.i + 1,
                          status |-> StartingStatus(productInfo, modelKey,
                                                    rec.i + 1, rec.iterationCount)])
           /\ batch' = [batch EXCEPT ![b] =
                   CallAIModelEnter([rec EXCEPT !.attempts = 0], modelKey, DefaultRetries)]
    /\ UNCHANGED <<env, statusResp, client>>

\* Variant of StartUnit: the progress update reports the number of the unit
\* being started instead of the units completed so far
StartUnit_OneBased(b) ==
    /\ batch[b].pc = "loop"
    /\ HasUnit(batch[b])
    /\ LET rec == batch[b]
           productInfo == ProductInfo(rec.csvData[rec.row])
           modelKey == rec.models[rec.mi]
       IN  /\ Publish(b, [completed |-> rec.completedTasks + 1,
                          total |-> rec.totalTasks,
                          percentage |-> Percentage(rec.completedTasks + 1, rec.totalTasks),
                          currentProduct |-> productInfo,
                          currentModel |-> modelKey,
                          iteration |-> rec.i + 1,
                          status |-> StartingStatus(productInfo, modelKey,
                                                    rec.i + 1, rec.iterationCount)])
           /\ batch' = [batch EXCEPT ![b] =
                   CallAIModelEnter([rec EXCEPT !.attempts = 0], modelKey, DefaultRetries)]
    /\ UNCHANGED <<env, statusResp, client>>

\* top of the innermost loop body: emit the progress update, then call
\* callAIModel(modelKey, prompt) and await it
StartUnit(b) ==
    /\ batch[b].pc = "loop"
    /\ HasUnit(batch[b])
    /\ LET rec == batch[b]
           productInfo == ProductInfo(rec.csvData[rec.row])
           modelKey == rec.models[rec.mi]
       IN  /\ Publish(b, [completed |-> rec.completedTasks,
                          total |-> rec.totalTasks,
                          percentage |-> Percentage(rec.completedTasks, rec.totalTasks),
                          currentProduct |-> productInfo,
                          currentModel |-> modelKey,
                          iteration |-> rec.i + 1,
                          status |-> StartingStatus(productInfo, modelKey,
                                                    rec.i + 1, rec.iterationCount)])
           /\ batch' = [batch EXCEPT ![b] =
                   CallAIModelEnter([rec EXCEPT !.attempts = 0], modelKey, DefaultRetries)]
    /\ UNCHANGED <<env, statusResp, client>>

\* Variant of NextCursor: the model loop nested inside the iteration loop
NextCursor_ModelInner(rec) ==
    IF rec.mi < Len(rec.models) THEN [rec EXCEPT !.mi = @ + 1]
    ELSE IF rec.i + 1 < rec.iterationCount THEN [rec EXCEPT !.mi = 1, !.i = @ + 1]
    ELSE [rec EXCEPT !.i = 0, !.mi = 1, !.row = @ + 1]

\* Variant of NextCursor: the iteration loop tests `i <= iterationCount`
NextCursor_InclusiveBound(rec) ==
    IF rec.i + 1 <= rec.iterationCount THEN [rec EXCEPT !.i = @ + 1]
    ELSE IF rec.mi < Len(rec.models) THEN [rec EXCEPT !.i = 0, !.mi = @ + 1]
    ELSE [rec EXCEPT !.i = 0, !.mi = 1, !.row = @ + 1]

\* the loop counters after the body ran once
NextCursor(rec) ==
    IF rec.i + 1 < rec.iterationCount THEN [rec EXCEPT !.i = @ + 1]
    ELSE IF rec.mi < Len(rec.models) THEN [rec EXCEPT !.i = 0, !.mi = @ + 1]
    ELSE [rec EXCEPT !.i = 0, !.mi = 1, !.row = @ + 1]

\* the text written to the 'Recommendation' column
Recommendation(settled) ==
    IF settled.kind = "return" THEN settled.val ELSE "Error: " \o settled.val

\* Variant of Resume: the catch branch pushes its row but omits completedTasks++
Resume_NoCountOnError(b) ==
    /\ batch[b].pc = "settled"
    /\ LET rec == batch[b]
           resultRow == [OriginalProduct |-> ProductInfo(rec.csvData[rec.row]),
                         Model |-> rec.models[rec.mi],
                         Iteration |-> rec.i + 1,
                         Recommendation |-> Recommendation(rec.settled)]
       IN  batch' = [batch EXCEPT ![b] =
               NextCursor([rec EXCEPT !.pc = "loop",
                                      !.results = Append(@, resultRow),
                                      !.completedTasks =
                                          IF rec.settled.kind = "return" THEN @ + 1 ELSE @,
                                      !.thrown = <<>>,
                                      !.settled = [kind |-> "none"]])]
    /\ UNCHANGED <<env, emitted, statusResp, sockets, client>>

\* Variant of Resume: no inner try/catch, a thrown callAIModel reaches the
\* outer catch and ends the request with a 500
Resume_AbortOnError(b) ==
    /\ batch[b].pc = "settled"
    /\ LET rec == batch[b]
           resultRow == [OriginalProduct |-> ProductInfo(rec.csvData[rec.row]),
                         Model |-> rec.models[rec.mi],
                         Iteration |-> rec.i + 1,
                         Recommendation |-> Recommendation(rec.settled)]
       IN  IF rec.settled.kind = "throw"
           THEN batch' = [batch EXCEPT ![b].pc = "done",
                                       ![b].thrown = <<>>,
                                       ![b].settled = [kind |-> "none"],
                                       ![b].response = [status |-> 500, success |-> FALSE,
                                                        error |-> rec.settled.val],
                                       ![b].respondedAt = Len(emitted)]
           ELSE batch' = [batch EXCEPT ![b] =
                   NextCursor([rec EXCEPT !.pc = "loop",
                                          !.results = Append(@, resultRow),
                                          !.completedTasks = @ + 1,
                                          !.thrown = <<>>,
                                          !.settled = [kind |-> "none"]])]
    /\ UNCHANGED <<env, emitted, statusResp, sockets, client>>

\* the request is between `await parseCSV` and its answer
InFlightPc(pc) == pc \notin {"idle", "parsing", "done"}

\* Variant of Resume: results is one module-level table that every request
\* in flight pushes to
Resume_SharedTable(b) ==
    /\ batch[b].pc = "settled"
    /\ LET rec == batch[b]
           resultRow == [OriginalProduct |-> ProductInfo(rec.csvData[rec.row]),
                         Model |-> rec.models[rec.mi],
                         Iteration |-> rec.i + 1,
                         Recommendation |-> Recommendation(rec.settled)]
       IN  batch' = [c \in Batches |->
               IF c = b
               THEN NextCursor([rec EXCEPT !.pc = "loop",
                                           !.results = Append(@, resultRow),
                                           !.completedTasks = @ + 1,
                                           !.thrown = <<>>,
                                           !.settled = [kind |-> "none"]])
               ELSE IF InFlightPc(batch[c].pc)
               THEN [batch[c] EXCEPT !.results = Append(@, resultRow)]
               ELSE batch[c]]
    /\ UNCHANGED <<env, emitted, statusResp, sockets, client>>

\* the awaited callAIModel settled: the try or the catch branch pushes the
\* row and counts the task, and the loops advance
Resume(b) ==
    /\ batch[b].pc = "settled"
    /\ LET rec == batch[b]
           resultRow == [OriginalProduct |-> ProductInfo(rec.csvData[rec.row]),
                         Model |-> rec.models[rec.mi],
                         Iteration |-> rec.i + 1,
                         Recommendation |-> Recommendation(rec.settled)]
       IN  batch' = [batch EXCEPT ![b] =
               NextCursor([rec EXCEPT !.pc = "loop",
                                      !.results = Append(@, resultRow),
                                      !.completedTasks = @ + 1,
                                      !.thrown = <<>>,
                                      !.settled = [kind |-> "none"]])]
    /\ UNCHANGED <<env, emitted, statusResp, sockets, client>>

\* XLSX workbook with one sheet 'Recommendations': a header row, then one
\* row per element of data
generateExcel(data) == [sheet |-> "Recommendations", rows |-> data]

\* Variant of Finish: the completion event is emitted only when there was work
Finish_SkipWhenEmpty(b) ==
    /\ batch[b].pc = "loop"
    /\ ~HasUnit(batch[b])
    /\ IF batch[b].totalTasks = 0 THEN UNCHANGED <<emitted, sockets>>
       ELSE Publish(b, [completed |-> batch[b].totalTasks,
                        total |-> batch[b].totalTasks,
                        percentage |-> 100,
                        status |-> "Processing complete! Generating Excel file..."])
    /\ batch' = [batch EXCEPT ![b].pc = "done",
                              ![b].response = [status |-> 200, success |-> TRUE,
                                               workbook |-> generateExcel(batch[b].results),
                                               totalRecommendations |-> Len(batch[b].results)],
                              ![b].respondedAt = Len(emitted')]
    /\ UNCHANGED <<env, statusResp, client>>

\* Variant of Finish: res.json runs before the completion event is emitted
Finish_RespondFirst(b) ==
    /\ batch[b].pc = "loop"
    /\ ~HasUnit(batch[b])
    /\ Publish(b, [completed |-> batch[b].totalTasks,
                   total |-> batch[b].totalTasks,
                   percentage |-> 100,
                   status |-> "Processing complete! Generating Excel file..."])
    /\ batch' = [batch EXCEPT ![b].pc = "done",
                              ![b].response = [status |-> 200, success |-> TRUE,
                                               workbook |-> generateExcel(batch[b].results),
                                               totalRecommendations |-> Len(batch[b].results)],
                              ![b].respondedAt = Len(emitted)]
    /\ UNCHANGED <<env, statusResp, client>>

\* after the loops: emit completion, build the workbook, answer
Finish(b) ==
    /\ batch[b].pc = "loop"
    /\ ~HasUnit(batch[b])
    /\ Publish(b, [completed |-> batch[b].totalTasks,
                   total |-> batch[b].totalTasks,
                   percentage |-> 100,
                   status |-> "Processing complete! Generating Excel file..."])
    /\ batch' = [batch EXCEPT ![b].pc = "done",
                              ![b].response = [status |-> 200, success |-> TRUE,
                                               workbook |-> generateExcel(batch[b].results),
                                               totalRecommendations |-> Len(batch[b].results)],
                              ![b].respondedAt = Len(emitted')]
    /\ UNCHANGED <<env, statusResp, client>>

-----------------------------------------------------------------------------
(* GET /api/status *)

\* Variant of availableModels: the listing without the all-models fallback
availableModels_FilterOnly(status) ==
    {k \in DOMAIN AI_MODELS : status[AI_MODELS[k].provider]}

availableModels(status) ==
    LET hasAnyApiKey == status["openai"] \/ status["anthropic"] \/ status["deepseek"] IN
    IF hasAnyApiKey
    THEN {k \in DOMAIN AI_MODELS : status[AI_MODELS[k].provider]}
    ELSE DOMAIN AI_MODELS

Status ==
    /\ statusResp' = [apiKeys |-> env,
                      availableModels |-> availableModels(env),
                      totalModels |-> Cardinality(DOMAIN AI_MODELS),
                      demoMode |-> ~(env["openai"] \/ env["anthropic"] \/ env["deepseek"])]
    /\ UNCHANGED <<env, batch, emitted, sockets, client>>

-----------------------------------------------------------------------------
Request(b) ==
    \/ \E hasFile \in BOOLEAN, sm \in ModelInputs, it \in IterationInputs :
           Upload(b, hasFile, sm, it, SocketIdOf(b))
    \/ \E sm \in OversizeModelInputs : FileTooLarge(b, sm)
    \/ \E data \in CsvInputs : ParseResolve(b, data)
    \/ ParseReject(b)
    \/ StartUnit(b)
    \/ \E choice \in DemoChoices : DemoTimer(b, choice)
    \/ \E text \in LiveTexts : ProviderReturn(b, text)
    \/ \E error \in ProviderErrors : ProviderThrow(b, error)
    \/ RetryTimer(b)
    \/ Resume(b)
    \/ Finish(b)

Next ==
    \/ \E b \in SingleBatch : Request(b)
    \/ Status

Spec == Init /\ [][Next]_vars

-----------------------------------------------------------------------------
(* Two uploads in flight and progress observers *)

\* only OPENAI_API_KEY is set: gpt-4o is served live, claude-3.7 in demo mode
SharedCredentials == [p \in Providers |-> p = "openai"]

\* request 1 selects either model, request 2 the demo model
SharedModelInputs(b) ==
    IF b = 1
    THEN {[kind |-> "array", val |-> <<"claude-3.7">>],
          [kind |-> "array", val |-> <<"gpt-4o">>]}
    ELSE {[kind |-> "array", val |-> <<"claude-3.7">>]}

SharedIterations == {[kind |-> "missing"]}

SharedErrors == {"Network Error"}

SharedSockets == {"s1"}

InitShared == Init /\ env = SharedCredentials

\* request b uploads a file of b rows, so the two requests differ in total
SharedRequest(b) ==
    \/ \E hasFile \in BOOLEAN, sm \in SharedModelInputs(b), it \in SharedIterations :
           Upload(b, hasFile, sm, it, SocketIdOf(b))
    \/ ParseResolve(b, CsvFile(b))
    \/ ParseReject(b)
    \/ StartUnit(b)
    \/ \E choice \in DemoChoices : DemoTimer(b, choice)
    \/ \E text \in LiveTexts : ProviderReturn(b, text)
    \/ \E error \in SharedErrors : ProviderThrow(b, error)
    \/ RetryTimer(b)
    \/ Resume(b)
    \/ Finish(b)

NextShared ==
    \/ \E b \in Batches : SharedRequest(b)
    \/ \E s \in SharedSockets : Connect(s)
    \/ \E s \in SharedSockets : Disconnect(s)

SpecShared == InitShared /\ [][NextShared]_vars

-----------------------------------------------------------------------------
(* One upload of two rows, watched by observers that come and go *)

\* what the event loop does for an accepted request: continuations run when
\* their promise settles, timers fire, and every provider attempt returns or
\* throws
Continue(b) ==
    \/ ParseResolve(b, CsvFile(2))
    \/ ParseReject(b)
    \/ StartUnit(b)
    \/ \E choice \in DemoChoices : DemoTimer(b, choice)
    \/ \E text \in LiveTexts : ProviderReturn(b, text)
    \/ \E error \in SharedErrors : ProviderThrow(b, error)
    \/ RetryTimer(b)
    \/ Resume(b)
    \/ Finish(b)

ObservedRequest(b) ==
    \/ \E hasFile \in BOOLEAN, sm \in SharedModelInputs(1), it \in SharedIterations :
           Upload(b, hasFile, sm, it, SocketIdOf(b))
    \/ Continue(b)

NextObserved ==
    \/ \E b \in SingleBatch : ObservedRequest(b)
    \/ \E s \in Sockets : Connect(s)
    \/ \E s \in Sockets : Disconnect(s)

SpecObserved == InitShared /\ [][NextObserved]_vars

\* observers are under no obligation; the request's own steps are taken
\* whenever they stay possible
FairObserved == SpecObserved /\ \A b \in SingleBatch : WF_vars(Continue(b))

-----------------------------------------------------------------------------
(* The disk-based variant of the server: multer({ dest: 'uploads/' }) writes
   the upload to a temporary file before the route handler runs, parseCSV
   reads that file, and the workbook is written under outputs/.  Its handler
   has the same text as the in-memory one from `await parseCSV` to the
   completion event, so ParseResolve, ProviderReturn, ProviderThrow and
   Resume are shared; the steps below are the ones that differ. *)

\* the message of the error callAIModel throws before its try block when the
\* provider's key is not set
KeyNotConfigured(provider) ==
    IF provider = "openai" THEN "OpenAI API key not configured"
    ELSE IF provider = "anthropic" THEN "Anthropic API key not configured"
    ELSE "DeepSeek API key not configured"

\* callAIModel of the disk-based variant up to its first await: no demo mode,
\* a missing key throws outside the retried block
DiskCallAIModelEnter(rec, modelKey, retries) ==
    IF modelKey \notin DOMAIN AI_MODELS
    THEN [rec EXCEPT !.pc = "settled",
                     !.retries = retries,
                     !.settled = [kind |-> "throw",
                                  val |-> "Cannot read properties of undefined (reading 'provider')"]]
    ELSE IF ~env[AI_MODELS[modelKey].provider]
    THEN [rec EXCEPT !.pc = "settled",
                     !.retries = retries,
                     !.settled = [kind |-> "throw",
                                  val |-> KeyNotConfigured(AI_MODELS[modelKey].provider)]]
    ELSE [rec EXCEPT !.pc = "provider",
                     !.retries = retries,
                     !.attempts = @ + 1,
                     !.pending = @ \cup {[op |-> "provider",
                                          unit |-> rec.completedTasks + 1,
                                          attempt |-> rec.attempts + 1]}]

\* upload.single('csvFile') stores the file under uploads/, then the handler
\* validates; each 400 answer is a bare `return res.status(400).json(...)`
DiskUpload(b, hasFile, selectedModels, iterations) ==
    /\ batch[b].pc = "idle"
    /\ LET err == ValidationError(hasFile, selectedModels)
           req == [file |-> IF hasFile THEN "ok" ELSE "none",
                   selectedModels |-> selectedModels,
                   socketId |-> SocketIdOf(b)]
       IN
       IF err # ""
       THEN batch' = [batch EXCEPT ![b].pc = "done",
                                   ![b].req = req,
                                   ![b].tempFile = IF hasFile THEN "present" ELSE "none",
                                   ![b].response = [status |-> 400, error |-> err],
                                   ![b].respondedAt = Len(emitted)]
       ELSE batch' = [batch EXCEPT ![b].pc = "parsing",
                                   ![b].req = req,
                                   ![b].tempFile = "present",
                                   ![b].models = selectedModels.val,
                                   ![b].iterationCount = ParseIterations(iterations)]
    /\ UNCHANGED <<env, emitted, statusResp, sockets, client>>

\* parseCSV rejects: the outer catch unlinks the temporary file if it still
\* exists, then answers 500
DiskParseReject(b) ==
    /\ batch[b].pc = "parsing"
    /\ batch' = [batch EXCEPT ![b].pc = "done",
                              ![b].tempFile = IF @ = "present" THEN "deleted" ELSE @,
                              ![b].response = [status |-> 500, success |-> FALSE,
                                               error |-> "Invalid CSV"],
                              ![b].respondedAt = Len(emitted)]
    /\ UNCHANGED <<env, emitted, statusResp, sockets, client>>

\* top of the innermost loop body in the disk-based variant
DiskStartUnit(b) ==
    /\ batch[b].pc = "loop"
    /\ HasUnit(batch[b])
    /\ LET rec == batch[b]
           productInfo == ProductInfo(rec.csvData[rec.row])
           modelKey == rec.models[rec.mi]
       IN  /\ Publish(b, [completed |-> rec.completedTasks,
                          total |-> rec.totalTasks,
                          percentage |-> Percentage(rec.completedTasks, rec.totalTasks),
                          currentProduct |-> productInfo,
                          currentModel |-> modelKey,
                          iteration |-> rec.i + 1,
                          status |-> StartingStatus(productInfo, modelKey,
                                                    rec.i + 1, rec.iterationCount)])
           /\ batch' = [batch EXCEPT ![b] =
                   DiskCallAIModelEnter([rec EXCEPT !.attempts = 0], modelKey, DefaultRetries)]
    /\ UNCHANGED <<env, statusResp, client>>

\* the retry delay elapsed in the disk-based variant
DiskRetryTimer(b) ==
    /\ batch[b].pc = "retryDelay"
    /\ LET rec == [batch[b] EXCEPT !.pending = {}] IN
       batch' = [batch EXCEPT ![b] =
                   DiskCallAIModelEnter(rec, rec.models[rec.mi], rec.retries - 1)]
    /\ UNCHANGED <<env, emitted, statusResp, sockets, client>>

\* after the loops: emit completion, write the workbook under outputs/,
\* unlink the temporary file, answer with the download URL
DiskFinish(b) ==
    /\ batch[b].pc = "loop"
    /\ ~HasUnit(batch[b])
    /\ Publish(b, [completed |-> batch[b].totalTasks,
                   total |-> batch[b].totalTasks,
                   percentage |-> 100,
                   status |-> "Processing complete! Generating Excel file..."])
    /\ batch' = [batch EXCEPT ![b].pc = "done",
                              ![b].tempFile = "deleted",
                              ![b].response = [status |-> 200, success |-> TRUE,
                                               downloadUrl |-> "/api/download/recommendations.xlsx",
                                               totalRecommendations |-> Len(batch[b].results)],
                              ![b].respondedAt = Len(emitted')]
    /\ UNCHANGED <<env, statusResp, client>>

\* the model keys sent to the disk-based variant: a live model, a model whose
\* key is not set, a key outside the table
DiskModelInputs ==
    {[kind |-> "missing"], [kind |-> "badjson"], [kind |-> "array", val |-> <<>>],
     [kind |-> "array", val |-> <<"gpt-4o">>],
     [kind |-> "array", val |-> <<"claude-3.7", "gpt-4o">>],
     [kind |-> "array", val |-> <<"not-a-model">>]}

DiskRequest(b) ==
    \/ \E hasFile \in BOOLEAN, sm \in DiskModelInputs, it \in SharedIterations :
           DiskUpload(b, hasFile, sm, it)
    \/ \E data \in CsvInputs : ParseResolve(b, data)
    \/ DiskParseReject(b)
    \/ DiskStartUnit(b)
    \/ \E text \in LiveTexts : ProviderReturn(b, text)
    \/ \E error \in SharedErrors : ProviderThrow(b, error)
    \/ DiskRetryTimer(b)
    \/ Resume(b)
    \/ DiskFinish(b)

NextDisk == \E b \in SingleBatch : DiskRequest(b)

SpecDisk == InitShared /\ [][NextDisk]_vars

-----------------------------------------------------------------------------
(* Long batches: one product, one demo model, `total` iterations.  The runs
   start inside the loop, at the top of one of the last three units, in the
   state the handler has built by then. *)

LargeTotals == (MaxTotal - 3)..MaxTotal

\* the progress update the loop emitted at the top of unit k + 1
LargeStartingEvent(k, total) ==
    [completed |-> k, total |-> total, percentage |-> Percentage(k, total),
     currentProduct |-> "Sofa", currentModel |-> "claude-3.7",
     iteration |-> k + 1,
     status |-> StartingStatus("Sofa", "claude-3.7", k + 1, total)]

\* the request's locals when `done` of its `total` units have been settled
LargeBatch(total, done) ==
    [IdleBatch EXCEPT
        !.pc = "loop",
        !.req = [file |-> "ok",
                 selectedModels |-> [kind |-> "array", val |-> <<"claude-3.7">>],
                 socketId |-> "s1"],
        !.models = <<"claude-3.7">>,
        !.iterationCount = total,
        !.csvData = CsvFile(1),
        !.totalTasks = total,
        !.completedTasks = done,
        !.i = done,
        !.results = [k \in 1..done |->
                        [OriginalProduct |-> "Sofa", Model |-> "claude-3.7",
                         Iteration |-> k,
                         Recommendation |->
                             generateDemoResponse(Prompt("Sofa"), "claude-3.7", 0)]]]

\* the events published up to that point: the initial one and one progress
\* update per unit started
LargeEmitted(total, done) ==
    [k \in 1..(done + 1) |->
        [by |-> 1,
         data |-> IF k = 1
                  THEN [completed |-> 0, total |-> total, percentage |-> 0,
                        currentProduct |-> "", currentModel |-> "",
                        status |-> "Starting processing..."]
                  ELSE LargeStartingEvent(k - 2, total)]]

InitLarge ==
    /\ env = SharedCredentials
    /\ \E total \in LargeTotals, left \in 1..3 :
          /\ batch = [b \in Batches |->
                         IF b = 1 THEN LargeBatch(total, total - left) ELSE IdleBatch]
          /\ emitted = LargeEmitted(total, total - left)
    /\ statusResp = [apiKeys |-> <<>>]
    /\ sockets = [s \in Sockets |-> NewSocket]
    /\ client = IdleClient

NextLarge ==
    \E b \in SingleBatch :
        \/ StartUnit(b)
        \/ \E choice \in DemoChoices : DemoTimer(b, choice)
        \/ Resume(b)
        \/ Finish(b)

SpecLarge == InitLarge /\ [][NextLarge]_vars

-----------------------------------------------------------------------------
(* The browser application: model selection and submission *)

\* the ids of the client's AI_MODELS array, in its order
ClientModels ==
    <<"gpt-4.1", "gpt-4o", "gpt-o3", "claude-3.7", "claude-sonnet-4",
      "claude-opus-4", "deepseek-chat", "deepseek-coder">>

\* Array.prototype.includes
Includes(list, id) == \E k \in 1..Len(list) : list[k] = id

\* availableModels={apiStatus?.availableModels || []}
ShownAvailable(c) ==
    IF c.apiStatus.loaded THEN c.apiStatus.availableModels ELSE {}

\* handleModelToggle: remove the id if selected, append it otherwise
handleModelToggle(selectedModels, modelId) ==
    IF Includes(selectedModels, modelId)
    THEN SelectSeq(selectedModels, LAMBDA id : id # modelId)
    ELSE Append(selectedModels, modelId)

\* handleSelectAllModels
handleSelectAllModels(selectedModels) ==
    IF Len(selectedModels) = Len(ClientModels) THEN <<>> ELSE ClientModels

\* checkApiStatus: the answer of GET /api/status is stored
SetApiStatus ==
    /\ ~client.apiStatus.loaded
    /\ "availableModels" \in DOMAIN statusResp
    /\ client' = [client EXCEPT !.apiStatus =
                     [loaded |-> TRUE, availableModels |-> statusResp.availableModels]]
    /\ UNCHANGED <<env, batch, emitted, statusResp, sockets>>

\* handleFileSelect
FileSelect ==
    /\ ~client.selectedFile
    /\ client' = [client EXCEPT !.selectedFile = TRUE]
    /\ UNCHANGED <<env, batch, emitted, statusResp, sockets>>

\* a click on the checkbox of a model; the checkbox of a model that is not
\* reported available is disabled
CheckboxToggle(modelId) ==
    /\ Includes(ClientModels, modelId)
    /\ modelId \in ShownAvailable(client)
    /\ client' = [client EXCEPT !.selectedModels = handleModelToggle(@, modelId)]
    /\ UNCHANGED <<env, batch, emitted, statusResp, sockets>>

\* a click on the x of a chip of the 'Selected Models' list
ChipRemove(modelId) ==
    /\ Includes(client.selectedModels, modelId)
    /\ client' = [client EXCEPT !.selectedModels = handleModelToggle(@, modelId)]
    /\ UNCHANGED <<env, batch, emitted, statusResp, sockets>>

\* a click on 'Select All Models' / 'Deselect All'; the button is disabled
\* only when a status answer lists no available model
SelectAllClick ==
    /\ ~(client.apiStatus.loaded /\ client.apiStatus.availableModels = {})
    /\ client' = [client EXCEPT !.selectedModels = handleSelectAllModels(@)]
    /\ UNCHANGED <<env, batch, emitted, statusResp, sockets>>

\* handleSubmit up to `await fetch`: the form data carries
\* JSON.stringify(selectedModels)
Submit ==
    /\ ~client.isProcessing
    /\ client.selectedFile
    /\ Len(client.selectedModels) > 0
    /\ client' = [client EXCEPT !.isProcessing = TRUE,
                                !.submitted = client.selectedModels]
    /\ UNCHANGED <<env, batch, emitted, statusResp, sockets>>

\* a server with the DeepSeek key only: two of the eight models are reported
\* available
ClientCredentials == {[p \in Providers |-> p = "deepseek"]}

InitClient == Init /\ env \in ClientCredentials

NextClient ==
    \/ Status
    \/ SetApiStatus
    \/ FileSelect
    \/ \E modelId \in DOMAIN AI_MODELS : CheckboxToggle(modelId)
    \/ \E modelId \in DOMAIN AI_MODELS : ChipRemove(modelId)
    \/ SelectAllClick
    \/ Submit

SpecClient == InitClient /\ [][NextClient]_vars

-----------------------------------------------------------------------------
(* Vocabulary of the properties *)

\* the progress snapshots request b published, in publish order
EventsOf(b) ==
    LET own == SelectSeq(emitted, LAMBDA e : e.by = b)
    IN  [k \in 1..Len(own) |-> own[k].data]

IsStarting(d) == "iteration" \in DOMAIN d

IsFinal(d) == "currentProduct" \notin DOMAIN d

IsInitial(d) == "currentProduct" \in DOMAIN d /\ "iteration" \notin DOMAIN d

StartingEventsOf(b) == SelectSeq(EventsOf(b), IsStarting)

\* the request passed validation and parsing, and no error response was sent
Accepted(rec) == rec.pc \notin {"idle", "parsing"} /\ rec.response.status \in {0, 200}

IsErrorRow(r) == StartsWith(r.Recommendation, "Error: ")

IsDemoRow(r) == EndsWith(r.Recommendation, DEMO_TAG)

\* the k-th work unit of the prescribed order: products outermost, then
\* models, then iterations 1..N
UnitAt(rec, k) ==
    LET M == Len(rec.models)
        N == rec.iterationCount
    IN  [product   |-> ProductInfo(rec.csvData[((k - 1) \div (M * N)) + 1]),
         model     |-> rec.models[(((k - 1) % (M * N)) \div N) + 1],
         iteration |-> ((k - 1) % N) + 1]

-----------------------------------------------------------------------------
\* C1: for an accepted upload with iteration count N >= 1, total is R*M*N from
\* the moment the loop is entered and never changes; completed grows by
\* exactly 1 when a unit resolves (provider success or failure alike) and at
\* no other step; completed equals total when the success response is sent.
C1_CounterContract ==
    [][\A b \in Batches :
        LET old == batch[b]
            new == batch[b]'
        IN  /\ (Accepted(new) /\ new.iterationCount >= 1) =>
                   new.totalTasks = Len(new.csvData) * Len(new.models) * new.iterationCount
            /\ Accepted(old) => new.totalTasks = old.totalTasks
            /\ (old.pc = "settled" /\ new # old) =>
                   new.completedTasks = old.completedTasks + 1
            /\ (Accepted(old) /\ old.pc # "settled") =>
                   new.completedTasks = old.completedTasks
            /\ (new.pc = "done" /\ Accepted(new) /\ new.iterationCount >= 1) =>
                   new.completedTasks = new.totalTasks
    ]_vars

\* a finished batch in which one unit failed and another succeeded
C1_Witness ==
    \E b \in Batches :
        /\ batch[b].pc = "done" /\ batch[b].response.status = 200
        /\ batch[b].completedTasks = 3
        /\ \E j, k \in 1..Len(batch[b].results) :
               IsErrorRow(batch[b].results[j]) /\ ~IsErrorRow(batch[b].results[k])

\* C2: the k-th result row and the k-th 'starting' progress event describe
\* the k-th unit of the nested order (product, then model in caller order,
\* then iteration 1..N), and a unit starts only after all earlier units have
\* their row.
C2_NestedOrder ==
    \A b \in Batches :
        LET rec == batch[b]
            S == StartingEventsOf(b)
        IN  Accepted(rec) =>
              /\ \A k \in 1..Len(rec.results) :
                    /\ rec.results[k].OriginalProduct = UnitAt(rec, k).product
                    /\ rec.results[k].Model = UnitAt(rec, k).model
                    /\ rec.results[k].Iteration = UnitAt(rec, k).iteration
              /\ \A k \in 1..Len(S) :
                    /\ S[k].currentProduct = UnitAt(rec, k).product
                    /\ S[k].currentModel = UnitAt(rec, k).model
                    /\ S[k].iteration = UnitAt(rec, k).iteration
              /\ Len(S) \in {Len(rec.results), Len(rec.results) + 1}

\* a finished 2 products x 2 models batch, and all four rows present
C2_Witness ==
    \E b \in Batches :
        /\ batch[b].pc = "done"
        /\ Len(batch[b].csvData) = 2 /\ batch[b].csvData[1] # batch[b].csvData[2]
        /\ Len(batch[b].models) = 2 /\ batch[b].models[1] # batch[b].models[2]
        /\ Len(batch[b].results) = 4
        /\ Len(StartingEventsOf(b)) = 4

\* C3: when the awaited callAIModel throws, the orchestrator appends exactly
\* one row for that unit whose Recommendation is 'Error: <message>', goes on
\* with the loop and sends no error response; a batch with error rows still
\* ends with the success response and one row per unit.
C3_FailedUnitDoesNotAbort ==
    [][\A b \in Batches :
        LET old == batch[b]
            new == batch[b]'
        IN  /\ (old.pc = "settled" /\ old.settled.kind = "throw" /\ new # old) =>
                  /\ Len(new.results) = Len(old.results) + 1
                  /\ SubSeq(new.results, 1, Len(old.results)) = old.results
                  /\ new.results[Len(new.results)].Recommendation = "Error: " \o old.settled.val
                  /\ new.results[Len(new.results)].OriginalProduct =
                         ProductInfo(old.csvData[old.row])
                  /\ new.results[Len(new.results)].Model = old.models[old.mi]
                  /\ new.results[Len(new.results)].Iteration = old.i + 1
                  /\ new.pc = "loop"
                  /\ new.response = NoResponse
            /\ (new.pc = "done" /\ \E k \in 1..Len(new.results) : IsErrorRow(new.results[k])) =>
                  /\ new.response.status = 200
                  /\ new.response.success
                  /\ Len(new.results) = new.totalTasks
                  /\ new.response.totalRecommendations = new.totalTasks
    ]_vars

\* a finished batch whose first unit failed on every attempt and whose later
\* unit produced a text
C3_Witness ==
    \E b \in Batches :
        /\ batch[b].pc = "done" /\ batch[b].response.status = 200
        /\ Len(batch[b].results) >= 2
        /\ batch[b].results[1].Recommendation = "Error: Network Error"
        /\ ~IsErrorRow(batch[b].results[2])

\* C4: in live mode callAIModel makes at most 3 provider attempts for one
\* work unit before it throws to the caller.
C4_AtMostThreeAttempts ==
    \A b \in Batches : batch[b].attempts <= 3

\* C5: for a key of the AI_MODELS table, callAIModel waits the demo delay
\* without any provider request exactly when the credential of that key's
\* provider is absent, whatever the other two credentials are, and sends
\* provider requests exactly when it is present; every value returned
\* without a provider request ends with the demo tag.
C5_DemoIffCredentialAbsent ==
    \A b \in Batches :
        LET rec == batch[b] IN
        rec.pc \in {"demoDelay", "provider", "retryDelay", "settled"} =>
            LET modelKey == rec.models[rec.mi] IN
            /\ modelKey \in DOMAIN AI_MODELS =>
                 IF env[AI_MODELS[modelKey].provider]
                 THEN /\ rec.pc # "demoDelay"
                      /\ rec.attempts >= 1
                      /\ (rec.pc = "settled" /\ rec.settled.kind = "return")
                             => rec.settled.val \in LiveTexts
                 ELSE /\ rec.pc \in {"demoDelay", "settled"}
                      /\ rec.attempts = 0
                      /\ rec.pc = "settled" => rec.settled.kind = "return"
            /\ rec.pc = "demoDelay" => rec.attempts = 0
            /\ (rec.pc = "settled" /\ rec.settled.kind = "return" /\ rec.attempts = 0)
                   => EndsWith(rec.settled.val, DEMO_TAG)

\* one batch, OpenAI configured and Anthropic not: the gpt-4o unit returned a
\* provider text, the claude-3.7 unit a demo text
C5_Witness ==
    \E b \in Batches :
        /\ env["openai"] /\ ~env["anthropic"]
        /\ batch[b].models = <<"gpt-4o", "claude-3.7">>
        /\ Len(batch[b].results) = 1
        /\ batch[b].results[1].Recommendation \in LiveTexts
        /\ batch[b].pc = "settled" /\ batch[b].settled.kind = "return"
        /\ IsDemoRow([Recommendation |-> batch[b].settled.val])

\* C6 (as stated): whatever the credential flags, a model key whose provider
\* has no credential is listed in availableModels of the status response.
C6_DemoModelsListed ==
    "availableModels" \in DOMAIN statusResp =>
        \A k \in DOMAIN AI_MODELS :
            ~env[AI_MODELS[k].provider] => k \in statusResp.availableModels

\* C6 (amended): a model key is listed in availableModels exactly when its
\* provider has a credential or no provider at all has one; demoMode tells
\* the second case.
C6_ListedIffKeyOrNoKeyAtAll ==
    "availableModels" \in DOMAIN statusResp =>
        /\ \A k \in DOMAIN AI_MODELS :
              k \in statusResp.availableModels <=>
                  (env[AI_MODELS[k].provider] \/ \A p \in Providers : ~env[p])
        /\ statusResp.availableModels \subseteq DOMAIN AI_MODELS
        /\ statusResp.demoMode <=> \A p \in Providers : ~env[p]

\* a status response with one provider configured: the keys of the others
\* are left out
C6_Witness ==
    /\ "availableModels" \in DOMAIN statusResp
    /\ env["openai"] /\ ~env["anthropic"] /\ ~env["deepseek"]
    /\ statusResp.availableModels = {"gpt-4.1", "gpt-4o", "gpt-o3"}

\* What an accepted request with zero data rows does, given the percentage
\* its initial progress event is to carry: total is 0, nothing is ever
\* outstanding and no provider request is made, the request is never waiting
\* (its completion step is enabled), the initial event and then the final
\* event (percentage 100) are the only events, and the success response
\* reports zero rows.
ZeroRowBatch(initialPercentage) ==
    \A b \in Batches :
        LET rec == batch[b]
            E == EventsOf(b)
        IN  (Accepted(rec) /\ Len(rec.csvData) = 0) =>
              /\ rec.totalTasks = 0
              /\ rec.attempts = 0 /\ rec.pending = {} /\ rec.results = <<>>
              /\ rec.pc \in {"loop", "done"}
              /\ Len(E) >= 1 /\ IsInitial(E[1])
              /\ E[1].completed = 0 /\ E[1].total = 0
              /\ E[1].percentage = initialPercentage
              /\ rec.pc = "loop" => (Len(E) = 1 /\ ENABLED Finish(b))
              /\ rec.pc = "done" =>
                    /\ Len(E) = 2 /\ IsFinal(E[2])
                    /\ E[2].completed = 0 /\ E[2].total = 0 /\ E[2].percentage = 100
                    /\ rec.response.status = 200 /\ rec.response.success
                    /\ rec.response.totalRecommendations = 0
                    /\ rec.response.workbook.rows = <<>>

\* C7 (as stated): for a header-only CSV the batch has total = 0, makes no
\* provider call, never hangs, answers success with an empty result set, and
\* both its initial and its final progress event carry percentage = 100.
C7_ZeroRowsBothEventsAt100 == ZeroRowBatch(100)

\* C7 (amended): the same, except that the initial progress event carries
\* percentage = 0; only the final event carries 100.
C7_ZeroRowsInitial0Final100 == ZeroRowBatch(0)

\* a header-only upload that was answered
C7_Witness ==
    \E b \in Batches :
        /\ batch[b].pc = "done" /\ batch[b].response.status = 200
        /\ Len(batch[b].csvData) = 0 /\ Len(batch[b].models) >= 1
        /\ Len(EventsOf(b)) = 2

C9_OneFinalEvent ==
    \A b \in Batches :
        LET rec == batch[b]
            E == EventsOf(b)
            finals == {k \in 1..Len(E) : IsFinal(E[k])}
        IN  /\ ~(rec.pc = "done" /\ rec.response.status = 200) => finals = {}
            /\ (rec.pc = "done" /\ rec.response.status = 200) =>
                  /\ finals = {Len(E)}
                  /\ \A k \in 1..Len(emitted) :
                        (emitted[k].by = b /\ IsFinal(emitted[k].data)) => k <= rec.respondedAt
                  /\ E[Len(E)].percentage = 100
                  /\ E[Len(E)].completed = E[Len(E)].total
                  /\ E[Len(E)].total = rec.totalTasks
                  /\ \A k \in 1..(Len(E) - 1) : E[k].status # E[Len(E)].status
                  /\ Len(rec.results) = Len(StartingEventsOf(b))
                  /\ rec.response.totalRecommendations = Len(rec.results)

\* a batch of several units that has published its final event
C9_Witness ==
    \E b \in Batches :
        /\ batch[b].pc = "done" /\ Len(batch[b].results) >= 2
        /\ IsFinal(EventsOf(b)[Len(EventsOf(b))])

\* C10: a batch has at most one provider request or timer outstanding, it
\* belongs to the unit being processed, and none is outstanding when the
\* loop is about to start the next unit or has ended.
C10_OneOutstanding ==
    \A b \in Batches :
        LET rec == batch[b] IN
        /\ Cardinality(rec.pending) <= 1
        /\ \A op \in rec.pending : op.unit = rec.completedTasks + 1
        /\ rec.pc \in {"idle", "parsing", "loop", "settled", "done"} => rec.pending = {}
        /\ rec.pc \in {"demoDelay", "provider", "retryDelay"} =>
               /\ Cardinality(rec.pending) = 1
               /\ \A op \in rec.pending : op.op = rec.pc
               /\ Len(StartingEventsOf(b)) = rec.completedTasks + 1

\* the retry delay of the second unit is the only thing outstanding
C10_Witness ==
    \E b \in Batches :
        /\ batch[b].completedTasks = 1
        /\ batch[b].pending = {[op |-> "retryDelay", unit |-> 2, attempt |-> 2]}

-----------------------------------------------------------------------------
(* Error handling *)

\* the request fails one of the four validations of the handler
InvalidRequest(req) ==
    \/ req.file = "none"
    \/ req.selectedModels.kind # "array"
    \/ Len(req.selectedModels.val) = 0

ValidationMessages ==
    {"No file uploaded", "No models selected", "Invalid models format",
     "At least one model must be selected"}

C12_ParseFailureAbortsBeforeWork ==
    [][\A b \in Batches :
          /\ (batch[b].pc = "parsing" /\ batch'[b].pc = "done") =>
                 /\ batch'[b].response.status = 500
                 /\ DOMAIN batch'[b].response = {"status", "success", "error"}
                 /\ batch'[b].response.success = FALSE
                 /\ emitted' = emitted /\ sockets' = sockets
                 /\ EventsOf(b) = <<>>
                 /\ batch'[b].attempts = 0 /\ batch'[b].pending = {}
                 /\ batch'[b].results = <<>>
          /\ (batch[b].pc = "done" /\ batch[b].response.status = 500) =>
                 /\ batch'[b] = batch[b]
                 /\ \A k \in Len(emitted) + 1 .. Len(emitted') : emitted'[k].by # b
      ]_vars

\* a request whose CSV could not be parsed was answered 500
C12_Witness ==
    \E b \in Batches :
        /\ batch[b].pc = "done" /\ batch[b].req.file = "ok"
        /\ batch[b].response.status = 500 /\ batch[b].response.success = FALSE
        /\ batch[b].csvData = <<>> /\ batch[b].attempts = 0

\* the body res.json sends on success: artifact reference and row count
IsSuccessBody(r) ==
    /\ r.status = 200
    /\ DOMAIN r = {"status", "success", "workbook", "totalRecommendations"}
    /\ r.success = TRUE

\* a JSON body with an error message, as the handler writes them
IsStructuredError(r) ==
    /\ r.status \in {400, 500}
    /\ "error" \in DOMAIN r
    /\ DOMAIN r \subseteq {"status", "success", "error"}

\* C13: every upload request is answered once, when it ends, and the answer
\* is either the success body or a structured JSON error.
C13_OneStructuredResponse ==
    \A b \in Batches :
        LET rec == batch[b] IN
        /\ rec.pc # "done" => rec.response = NoResponse
        /\ rec.pc = "done" => IsSuccessBody(rec.response) \/ IsStructuredError(rec.response)

-----------------------------------------------------------------------------
(* Demo batches *)

\* every selected key is in the model table and its provider has no credential
AllCredentialsAbsent(rec) ==
    \A k \in 1..Len(rec.models) :
        /\ rec.models[k] \in DOMAIN AI_MODELS
        /\ ~env[AI_MODELS[rec.models[k]].provider]

\* C14: when no selected model's provider has a credential, a batch of
\* R products x M models x N >= 1 iterations makes no provider request, every
\* row it appends is demo-tagged and none is an error-marker row, and it ends
\* with R*M*N rows and a final event carrying percentage = 100 and
\* completed = R*M*N.
C14_AllDemoBatch ==
    \A b \in Batches :
        LET rec == batch[b]
            units == Len(rec.csvData) * Len(rec.models) * rec.iterationCount
        IN  (Accepted(rec) /\ rec.iterationCount >= 1 /\ AllCredentialsAbsent(rec)) =>
              /\ rec.attempts = 0
              /\ \A k \in 1..Len(rec.results) :
                     IsDemoRow(rec.results[k]) /\ ~IsErrorRow(rec.results[k])
              /\ rec.pc = "done" =>
                     /\ Len(rec.results) = units
                     /\ rec.response.totalRecommendations = units
                     /\ LET last == EventsOf(b)[Len(EventsOf(b))] IN
                        /\ IsFinal(last)
                        /\ last.percentage = 100
                        /\ last.completed = units

\* 2 products x 1 model x 2 iterations without credentials ended with 4 rows
C14_Witness ==
    \E b \in Batches :
        /\ batch[b].pc = "done" /\ AllCredentialsAbsent(batch[b])
        /\ Len(batch[b].csvData) = 2 /\ batch[b].iterationCount = 2
        /\ Len(batch[b].results) = 4
        /\ \A k \in 1..4 : IsDemoRow(batch[b].results[k])

-----------------------------------------------------------------------------
(* Termination *)

\* request b ended with the success response after all of its units
Completed(b) ==
    /\ batch[b].pc = "done"
    /\ IsSuccessBody(batch[b].response)
    /\ batch[b].completedTasks = batch[b].totalTasks
    /\ Len(batch[b].results) = batch[b].totalTasks
    /\ IsFinal(EventsOf(b)[Len(EventsOf(b))])

\* C15: every batch that entered its loop eventually resolves all of its
\* units, publishes its final event and sends the success response, whether
\* observers connect, stay, disconnect or never show up.
C15_StartedBatchCompletes ==
    \A b \in Batches : (batch[b].pc = "loop") ~> Completed(b)

\* the batch completed although every observer had left before its last event
C15_Witness ==
    \E b \in Batches :
        /\ Completed(b) /\ batch[b].totalTasks = 2
        /\ \E k \in 1..2 : IsErrorRow(batch[b].results[k])
        /\ \A s \in Sockets :
               /\ sockets[s].state = "closed"
               /\ sockets[s].joinedAt + Len(sockets[s].received) < Len(emitted)

-----------------------------------------------------------------------------
(* Observers *)

\* seq is made of elements of emitted published after position `from`, in
\* their publish order
InPublishOrderAfter(seq, from) ==
    \E f \in [1..Len(seq) -> (from + 1)..Len(emitted)] :
        /\ \A i \in 1..Len(seq) : seq[i] = emitted[f[i]]
        /\ \A i, j \in 1..Len(seq) : i < j => f[i] < f[j]

\* C16: an observer is sent nothing that was published before it connected
\* (no buffering, no replay), and what it is sent arrives in publish order.
C16_NoReplayInOrder ==
    \A s \in Sockets :
        /\ sockets[s].state = "new" => sockets[s].received = <<>>
        /\ InPublishOrderAfter(sockets[s].received, sockets[s].joinedAt)

\* an observer that connected after the first unit had started was sent the
\* second unit's event and the final event
C16_Witness ==
    \E s \in Sockets, b \in Batches :
        /\ sockets[s].joinedAt = 2
        /\ Len(sockets[s].received) = 2
        /\ sockets[s].received[1].data.completed = 1
        /\ IsFinal(sockets[s].received[2].data)
        /\ Len(EventsOf(b)) = 4

-----------------------------------------------------------------------------
(* Concurrent batches *)

\* event data d is a snapshot of request record rec alone
SnapshotOf(d, rec) ==
    /\ d.total = rec.totalTasks
    /\ IsInitial(d) => d.completed = 0 /\ d.percentage = 0
    /\ IsFinal(d) => d.completed = rec.totalTasks /\ d.percentage = 100
    /\ IsStarting(d) =>
           /\ d.completed \in 0..(rec.totalTasks - 1)
           /\ d.completed <= rec.completedTasks
           /\ d.percentage = Percentage(d.completed, d.total)
           /\ d.currentProduct = UnitAt(rec, d.completed + 1).product
           /\ d.currentModel = UnitAt(rec, d.completed + 1).model
           /\ d.iteration = UnitAt(rec, d.completed + 1).iteration
           /\ d.status = StartingStatus(d.currentProduct, d.currentModel,
                                        d.iteration, rec.iterationCount)

\* position of an event in the publish order of its own batch
PublishRank(d) ==
    IF IsInitial(d) THEN 0 ELSE IF IsStarting(d) THEN d.completed + 1 ELSE d.total + 1

\* C18: with two batches publishing concurrently, every event an observer
\* receives is the snapshot of exactly one batch (completed, total, percentage
\* and status all of that batch), and the events of each batch reach the
\* observer in that batch's publish order.
C18_ReceivedEventsAreSnapshots ==
    \A s \in Sockets :
        LET got == sockets[s].received IN
        /\ \A k \in 1..Len(got) : SnapshotOf(got[k].data, batch[got[k].by])
        /\ \A j, k \in 1..Len(got) :
               (j < k /\ got[j].by = got[k].by) =>
                   PublishRank(got[j].data) < PublishRank(got[k].data)

\* an observer received events of both batches interleaved: a unit of batch
\* 2, then a unit of batch 1, then the second unit of batch 2
C18_Witness ==
    \E s \in Sockets :
        LET got == sockets[s].received IN
        \E i, j, k \in 1..Len(got) :
            /\ i < j /\ j < k
            /\ got[i].by = 2 /\ got[j].by = 1 /\ got[k].by = 2
            /\ IsStarting(got[i].data) /\ IsStarting(got[j].data)
            /\ IsStarting(got[k].data)
            /\ got[i].data.total # got[j].data.total

-----------------------------------------------------------------------------
(* The steps of one work unit *)

\* the request is between the 'starting' event of a unit and that unit's row
InFlight(rec) == rec.pc \in {"demoDelay", "provider", "retryDelay", "settled"}

\* C19: each unit goes through 'starting' event, provider call, row append
\* and counter increment in this order, and nothing of another unit happens
\* in between: the k-th 'starting' event carries completed = k - 1; it is
\* emitted with k - 1 rows present and is followed by the call of unit k; no
\* other event of the batch is emitted and no other call made until the row
\* of unit k is appended, which happens together with the increment.
C19_UnitStepOrder ==
    [][\A b \in Batches :
          LET old == batch[b]
              new == batch[b]'
              S == StartingEventsOf(b)
              T == StartingEventsOf(b)'
          IN  /\ \A k \in 1..Len(T) : T[k].completed = k - 1
              /\ Len(T) # Len(S) =>
                     /\ old.pc = "loop" /\ InFlight(new)
                     /\ Len(T) = Len(S) + 1
                     /\ Len(old.results) = Len(S)
                     /\ new.results = old.results
                     /\ new.completedTasks = old.completedTasks
              /\ InFlight(old) =>
                     /\ EventsOf(b)' = EventsOf(b)
                     /\ Len(S) = old.completedTasks + 1
                     /\ Len(old.results) = old.completedTasks
                     /\ \A op \in new.pending : op.unit = Len(S)
              /\ new.attempts > old.attempts =>
                     /\ InFlight(new) /\ Len(T) = new.completedTasks + 1
              /\ new.results # old.results =>
                     /\ old.pc = "settled"
                     /\ Len(new.results) = Len(old.results) + 1
                     /\ SubSeq(new.results, 1, Len(old.results)) = old.results
                     /\ new.results[Len(S)].OriginalProduct = S[Len(S)].currentProduct
                     /\ new.results[Len(S)].Model = S[Len(S)].currentModel
                     /\ new.results[Len(S)].Iteration = S[Len(S)].iteration
                     /\ new.completedTasks = old.completedTasks + 1
              /\ new.completedTasks # old.completedTasks =>
                     Len(new.results) = Len(old.results) + 1
      ]_vars

\* the third unit is in flight after one retry: its 'starting' event carries
\* completed = 2 and two rows are present
C19_Witness ==
    \E b \in Batches :
        /\ batch[b].pc = "provider" /\ batch[b].attempts = 2
        /\ Len(StartingEventsOf(b)) = 3
        /\ StartingEventsOf(b)[3].completed = 2
        /\ Len(batch[b].results) = 2

-----------------------------------------------------------------------------
(* The result table *)

\* C20: the result table only grows, by one row per resolved unit: no row
\* present is changed or removed, at every progress emission of the batch
\* the table's length equals the completed counter, and the row count of
\* the success response equals total.
C20_AppendOnlyOneRowPerUnit ==
    [][\A b \in Batches :
          LET old == batch[b]
              new == batch[b]'
          IN  /\ Len(new.results) >= Len(old.results)
              /\ SubSeq(new.results, 1, Len(old.results)) = old.results
              /\ Len(new.results) # Len(old.results) =>
                     /\ Len(new.results) = Len(old.results) + 1
                     /\ old.pc = "settled"
              /\ EventsOf(b)' # EventsOf(b) =>
                     Len(old.results) = old.completedTasks
              /\ new.response.status = 200 =>
                     new.response.totalRecommendations = new.totalTasks
      ]_vars

-----------------------------------------------------------------------------
(* Iteration numbers *)

\* C21: the iteration carried by every result row and by every 'starting'
\* progress event is 1-based and lies in 1..iterationCount, the iteration
\* count the handler derived from the request.
C21_IterationInRange ==
    \A b \in Batches :
        LET rec == batch[b]
            S == StartingEventsOf(b)
        IN  Accepted(rec) =>
              /\ \A k \in 1..Len(rec.results) :
                     rec.results[k].Iteration \in 1..rec.iterationCount
              /\ \A k \in 1..Len(S) : S[k].iteration \in 1..rec.iterationCount

\* a batch of two iterations has a row and a 'starting' event for each of them
C21_Witness ==
    \E b \in Batches :
        /\ batch[b].iterationCount = 2
        /\ \E j, k \in 1..Len(batch[b].results) :
               batch[b].results[j].Iteration = 1 /\ batch[b].results[k].Iteration = 2
        /\ \E j, k \in 1..Len(StartingEventsOf(b)) :
               /\ StartingEventsOf(b)[j].iteration = 1
               /\ StartingEventsOf(b)[k].iteration = 2

-----------------------------------------------------------------------------
(* Exhausted retries *)

\* C22: when every attempt of a unit failed, callAIModel throws the error of
\* the last attempt, and the unit's row reads 'Error: ' followed by the
\* message of that last error.
C22_LastErrorSurfaces ==
    [][\A b \in Batches :
          LET old == batch[b]
              new == batch[b]'
          IN  /\ (old.pc = "provider" /\ new.pc = "settled" /\ new.settled.kind = "throw") =>
                     /\ old.retries = 0
                     /\ new.settled.val = new.thrown[Len(new.thrown)]
              /\ (old.pc = "settled" /\ old.settled.kind = "throw" /\ Len(old.thrown) > 0
                      /\ new.pc # "settled") =>
                     /\ Len(new.results) = Len(old.results) + 1
                     /\ new.results[Len(new.results)].Recommendation =
                            "Error: " \o old.thrown[Len(old.thrown)]
      ]_vars

\* a unit's row carries the last error, which differs from its first one
C22_Witness ==
    \E b \in Batches :
        /\ batch[b].pc = "settled" /\ batch[b].settled.kind = "throw"
        /\ Len(batch[b].thrown) = 2 /\ batch[b].thrown[1] # batch[b].thrown[2]
        /\ batch[b].settled.val = batch[b].thrown[2]
        /\ batch[b].attempts = DefaultRetries + 1

-----------------------------------------------------------------------------
(* Broadcast *)

\* C23: progress events go to every connected observer whatever socketId the
\* upload carried: a connected observer has received every event published
\* since it connected, those of the request that named another socket
\* included, and a closed one every event published while it was connected.
C23_BroadcastToAll ==
    \A s \in Sockets :
        LET k == sockets[s]
            upto == k.joinedAt + Len(k.received)
        IN  /\ upto <= Len(emitted)
            /\ k.received = SubSeq(emitted, k.joinedAt + 1, upto)
            /\ k.state = "open" => upto = Len(emitted)

\* with both requests in flight, the socket named by request 1 has received
\* 'starting' events of request 1 and of request 2, which named another socket
C23_Witness ==
    \E s \in Sockets :
        /\ batch[1].req.socketId = s /\ batch[2].req.socketId # s
        /\ InFlight(batch[1]) /\ InFlight(batch[2])
        /\ \E j, k \in 1..Len(sockets[s].received) :
               /\ sockets[s].received[j].by = 1 /\ IsStarting(sockets[s].received[j].data)
               /\ sockets[s].received[k].by = 2 /\ IsStarting(sockets[s].received[k].data)

-----------------------------------------------------------------------------
\* C24: in the disk-based variant, once an upload request that carried a file
\* has been answered (success, 400 or 500), its temporary file under uploads/
\* has been deleted.
C24_TempFileDeleted ==
    \A b \in Batches :
        (batch[b].pc = "done" /\ batch[b].req.file = "ok")
            => batch[b].tempFile = "deleted"

-----------------------------------------------------------------------------
\* C25: a progress event carries percentage = 100 only when no unit of its
\* batch is outstanding (completed = total); in particular no progress update
\* of a unit still to be processed carries 100, whatever the total.
C25_HundredOnlyWhenDone ==
    \A k \in 1..Len(emitted) :
        emitted[k].data.percentage = 100
            => emitted[k].data.completed = emitted[k].data.total

-----------------------------------------------------------------------------
\* C26: for every request that passes validation, whatever the iterations
\* field holds, every progress event has 0 <= completed <= total.
C26_CountersInRange ==
    \A k \in 1..Len(emitted) :
        /\ 0 <= emitted[k].data.completed
        /\ emitted[k].data.completed <= emitted[k].data.total

-----------------------------------------------------------------------------
\* C27: within one batch, the completed value and the percentage value of
\* successive progress events (initial, progress updates, final) never
\* decrease.
C27_NeverDecrease ==
    \A b \in Batches :
        LET ev == EventsOf(b) IN
        \A k \in 1..(Len(ev) - 1) :
            /\ ev[k].completed <= ev[k + 1].completed
            /\ ev[k].percentage <= ev[k + 1].percentage

-----------------------------------------------------------------------------
\* C28: a model key that is not in the AI_MODELS table passes validation;
\* each of its units fails before the retried block: the awaited call throws
\* with no provider request and no retry, and the unit's row is an error row.
C28_UnknownKeyFailsAtOnce ==
    \A b \in Batches :
        LET rec == batch[b] IN
        /\ \A k \in 1..Len(rec.results) :
               rec.results[k].Model \notin DOMAIN AI_MODELS
                   => IsErrorRow(rec.results[k])
        /\ (/\ rec.pc \in {"demoDelay", "provider", "retryDelay", "settled"}
            /\ rec.models[rec.mi] \notin DOMAIN AI_MODELS)
               => /\ rec.pc = "settled"
                  /\ rec.settled.kind = "throw"
                  /\ rec.attempts = 0
                  /\ rec.retries = DefaultRetries

-----------------------------------------------------------------------------
\* C29: in the client, after any sequence of checkbox toggles, chip removals
\* and 'Select All' clicks, the selected model list has no duplicates and
\* holds only models the status interface reported available; the same for
\* the list a submission carries.
C29_SelectionAvailableNoDuplicates ==
    /\ \A j, k \in 1..Len(client.selectedModels) :
           j # k => client.selectedModels[j] # client.selectedModels[k]
    /\ \A k \in 1..Len(client.selectedModels) :
           client.selectedModels[k] \in ShownAvailable(client)
    /\ \A k \in 1..Len(client.submitted) :
           client.submitted[k] \in ShownAvailable(client)

-----------------------------------------------------------------------------
\* C30: two upload requests whose steps interleave keep separate result
\* tables and counters: a step of one request leaves the other's record
\* alone, every event carries the counters of the request that published it,
\* each request's rows are the units of its own products and models in its
\* own nested order, and its answer counts its own R * M * N rows.
C30_RequestsIsolated ==
    [][ /\ \A b, c \in Batches :
               (b # c /\ batch'[b] # batch[b]) => batch'[c] = batch[c]
        /\ Len(emitted') > Len(emitted) =>
               LET e == emitted'[Len(emitted')] IN
               /\ e.data.total = batch'[e.by].totalTasks
               /\ e.data.completed = batch'[e.by].completedTasks
        /\ \A b \in Batches :
               LET rec == batch'[b] IN
               /\ Accepted(rec) =>
                      /\ Len(rec.results) = rec.completedTasks
                      /\ \A k \in 1..Len(rec.results) :
                             /\ rec.results[k].OriginalProduct = UnitAt(rec, k).product
                             /\ rec.results[k].Model = UnitAt(rec, k).model
                             /\ rec.results[k].Iteration = UnitAt(rec, k).iteration
               /\ rec.response.status = 200 =>
                      /\ rec.response.totalRecommendations =
                             Len(rec.csvData) * Len(rec.models) * rec.iterationCount
                      /\ rec.response.workbook.rows = rec.results
      ]_vars

\* both requests were answered with their own row counts after their events
\* alternated
C30_Witness ==
    /\ batch[1].response.status = 200 /\ batch[1].response.totalRecommendations = 1
    /\ batch[2].response.status = 200 /\ batch[2].response.totalRecommendations = 2
    /\ \E i, j, k \in 1..Len(emitted) :
           /\ i < j /\ j < k
           /\ emitted[i].by = 2 /\ emitted[j].by = 1 /\ emitted[k].by = 2
           /\ IsStarting(emitted[i].data) /\ IsStarting(emitted[j].data)

====
